---------------------------- MODULE Spec2Model ----------------------------
(***************************************************************************)
(* NoLine smart queue: registration, billing, exit verification.          *)
(*                                                                         *)
(* The store is two collections, customers (models/Customer.js) and       *)
(* queues (models/Queue.js).  Every request handler is an async function: *)
(* each awaited store operation is one atomic step, and the handler keeps *)
(* the documents it loaded in local variables between its steps.  A       *)
(* mongoose save() writes the fields the handler modified to the document *)
(* with the loaded _id, whatever that document holds by then.             *)
(***************************************************************************)
EXTENDS Integers, Sequences, FiniteSets, TLC

\* ------------------------------------------------------------------ bounds
MaxDocs == 2        \* documents the customers collection ever receives
MaxTime == 4        \* the clock stops handing out timestamps after this
MaxBulkLen == 1     \* longest qrDataArray given to bulk verification
MaxPosition == 60   \* largest position handed to getEstimatedWaitTime
MaxFailures == 1    \* store operations that are ever rejected

Procs == {"h1", "h2"}   \* request handlers that can be in flight at once

\* ------------------------------------------------------- program constants
START_NUMBER == 1001
AVG_SERVICE_TIME_MINUTES == 3
Null == 0           \* a Date field that holds null

\* customerId "SM-<n>" is held as the number n; the zero padding to four
\* digits changes nothing from START_NUMBER on.
CustomerIds == START_NUMBER .. (START_NUMBER + MaxDocs - 1)
QueueNumbers == 1 .. MaxDocs

VARIABLES
  customers,    \* set of customer documents
  queues,       \* set of queue documents
  nextDocId,    \* the _id the next created document gets
  now,          \* the clock read by new Date()
  pc,           \* pc[p]: where handler p stands ("idle": no request)
  loc,          \* loc[p]: local variables of handler p
  response,     \* the response that ended a handler in the last step; a
                \*   request answered straight from its first store read
                \*   changes no variable and is described by the
                \*   ...Outcome operators instead
  issued,       \* history: queue numbers returned by successful registrations
  verifiedDocs, \* history: <<customer _id, verifiedAt>> of every SUCCESS
                \*   response of verify
  sawSuccess,   \* history: sawSuccess[p]: a verify with p's credential
                \*   returned SUCCESS while p was in flight
  sawIssued,    \* history: sawIssued[p]: queue numbers returned by other
                \*   registrations while registration p was in flight
  call,         \* a function exercised on its own: its argument (for the
                \*   codec the data handed to generateQRCode, then the
                \*   payload text) and its result ("none" while the
                \*   handlers run)
  failures      \* store operations rejected so far

vars == <<customers, queues, nextDocId, now, pc, loc, response,
          issued, verifiedDocs, sawSuccess, sawIssued, failures, call>>

store == <<customers, queues>>

\* --------------------------------------------------------------- documents
NewCustomer(id, customerId, queueNumber, t) ==
  [id |-> id, customerId |-> customerId, queueNumber |-> queueNumber,
   status |-> "WAITING", billedAt |-> Null, verifiedAt |-> Null,
   createdAt |-> t]

NewQueue(id, queueNumber, customerId, t) ==
  [id |-> id, queueNumber |-> queueNumber, customerId |-> customerId,
   status |-> "ACTIVE", enteredAt |-> t, completedAt |-> Null]

\* getQueueStatistics before any query has answered.  averageWaitTime is a
\* fraction num / den of minutes until Math.round is applied.
NoStatistics ==
  [activeQueueSize |-> 0, totalServed |-> 0,
   averageWaitTime |-> [num |-> 0, den |-> 1], rounded |-> 0,
   nextQueue |-> 0, nextCustomer |-> 0]

NoLocal ==
  [customerId |-> 0, queueNumber |-> 0, doc |-> 0, qdoc |-> 0,
   status |-> "none", billedAt |-> Null, verifiedAt |-> Null,
   items |-> <<>>, results |-> <<>>,
   queue |-> <<>>, statistics |-> NoStatistics, cartNull |-> FALSE]

NoResponse ==
  [op |-> "none", proc |-> "none", code |-> 0, verification |-> "none",
   reason |-> "none", customerId |-> 0, queueNumber |-> 0,
   status |-> "none", billedAt |-> Null, verifiedAt |-> Null,
   position |-> 0, wait |-> 0, results |-> <<>>,
   queue |-> <<>>, statistics |-> NoStatistics]

Reply(op, code) == [NoResponse EXCEPT !.op = op, !.code = code]

By(p, r) == [r EXCEPT !.proc = p]

\* Customer.findOne({ customerId }): the documents it can return
FindCustomer(customerId) == {c \in customers : c.customerId = customerId}

CustomerById(id) == {c \in customers : c.id = id}

QueueById(id) == {q \in queues : q.id = id}

\* --------------------------------------------------------------- utilities
Max(S) == CHOOSE x \in S : \A y \in S : y <= x

\* customerSchema.statics.getNextQueueNumber
getNextQueueNumber ==
  IF customers = {} THEN 1
  ELSE Max({c.queueNumber : c \in customers}) + 1

\* generateCustomerId: the customer created last, its number plus one
generateCustomerId ==
  IF customers = {} THEN START_NUMBER
  ELSE LET last == CHOOSE c \in customers :
                     \A d \in customers : d.createdAt <= c.createdAt
       IN  last.customerId + 1

\* queueSchema.statics.getPosition / calculateQueuePosition
calculateQueuePosition(queueNumber) ==
  Cardinality({q \in queues : q.status = "ACTIVE"
                               /\ q.queueNumber < queueNumber}) + 1

\* getEstimatedWaitTime without its test position <= 1
getEstimatedWaitTimeNoFloor(position) ==
  (position - 1) * AVG_SERVICE_TIME_MINUTES

\* getEstimatedWaitTime
getEstimatedWaitTime(position) ==
  IF position <= 1 THEN 0 ELSE (position - 1) * AVG_SERVICE_TIME_MINUTES

\* --------------------------------------------------------------- init
NoCall ==
  [stage |-> "none", data |-> <<>>, t |-> Null, text |-> <<>>,
   result |-> "none", parsedData |-> <<>>]

\* The server after start-up, before any request
InitServer ==
  /\ customers = {}
  /\ queues = {}
  /\ nextDocId = 1
  /\ now = 1
  /\ pc = [p \in Procs |-> "idle"]
  /\ loc = [p \in Procs |-> NoLocal]
  /\ response = NoResponse
  /\ issued = {}
  /\ verifiedDocs = {}
  /\ sawSuccess = [p \in Procs |-> FALSE]
  /\ sawIssued = [p \in Procs |-> {}]
  /\ failures = 0

Init == InitServer /\ call = NoCall

\* ------------------------------------------------- responses and history
VerifyPcs == {"v_mark", "v_qfind", "v_complete"}
RegisterPcs == {"r_qn", "r_customer", "r_queue", "r_position"}

\* The handler's step sent no response: it stays in flight at `next`.
Stay(p, next, l) ==
  /\ pc' = [pc EXCEPT ![p] = next]
  /\ loc' = [loc EXCEPT ![p] = l]
  /\ response' = NoResponse
  /\ UNCHANGED <<issued, verifiedDocs, sawSuccess, sawIssued, call>>

\* res.status(..).json(..): the handler ends.  The history variables note
\* what the response tells the requests still in flight.
End(p, r, doc) ==
  /\ pc' = [pc EXCEPT ![p] = "idle"]
  /\ UNCHANGED call
  /\ loc' = [loc EXCEPT ![p] = NoLocal]
  /\ response' = By(p, r)
  /\ issued' = IF r.op = "register" /\ r.code = 201
               THEN issued \cup {r.queueNumber} ELSE issued
  /\ verifiedDocs' = IF r.op = "verify" /\ r.verification = "SUCCESS"
                     THEN verifiedDocs \cup {<<doc, r.verifiedAt>>}
                     ELSE verifiedDocs
  /\ sawSuccess' =
       [q \in Procs |->
          IF q = p THEN FALSE
          ELSE IF /\ r.op = "verify" /\ r.verification = "SUCCESS"
                  /\ pc[q] \in VerifyPcs
                  /\ loc[q].customerId = r.customerId
                  /\ loc[q].queueNumber = r.queueNumber
               THEN TRUE ELSE sawSuccess[q]]
  /\ sawIssued' =
       [q \in Procs |->
          IF q = p THEN {}
          ELSE IF r.op = "register" /\ r.code = 201 /\ pc[q] \in RegisterPcs
               THEN sawIssued[q] \cup {r.queueNumber} ELSE sawIssued[q]]

\* A step whose store operation was answered
Continue(p, next, l) == Stay(p, next, l) /\ UNCHANGED failures

Respond(p, r, doc) == End(p, r, doc) /\ UNCHANGED failures

\* new Date() reads the clock.  Time moves on with every write to a
\* customer document, so a later write to a queue document reads a later
\* time.
Tick == now' = now + 1

\* ---------------------------------------------------------- registration
Digits == {"0", "1", "2", "3", "4", "5", "6", "7", "8", "9"}

\* /^\d{10}$/.test(phone)
IsTenDigits(phone) ==
  Len(phone) = 10 /\ \A i \in 1 .. Len(phone) : phone[i] \in Digits

GoodPhone == <<"9", "8", "7", "6", "5", "4", "3", "2", "1", "0">>

\* req.body: a body that passes validation, one at the cartTotal boundary,
\* and bodies that differ from the first in the one field that fails.
\* cartGiven: the body has a cartTotal member; cartNull: its value is null.
GoodBody ==
  [name |-> "Asha", phone |-> GoodPhone, cartGiven |-> TRUE,
   cartNull |-> FALSE, cartTotal |-> 1350]

RegInputs ==
  {GoodBody,
   [GoodBody EXCEPT !.cartTotal = 0],
   [GoodBody EXCEPT !.name = ""],
   [GoodBody EXCEPT !.phone = <<>>],
   [GoodBody EXCEPT !.cartGiven = FALSE],
   [GoodBody EXCEPT !.phone = <<"9", "8", "7">>],
   [GoodBody EXCEPT !.phone =
      <<"9", "8", "7", "6", "5", "a", "b", "c", "d", "e">>],
   [GoodBody EXCEPT !.cartTotal = -5]}

\* The same bodies and one whose cartTotal is null
RegBodies ==
  RegInputs \cup {[GoodBody EXCEPT !.cartNull = TRUE, !.cartTotal = 0]}

\* registerCustomer's input validation: the 400 response, or NoResponse
\* when the input passes
RegisterOutcome(in) ==
  IF in.name = "" \/ in.phone = <<>> \/ ~in.cartGiven
  THEN [Reply("register", 400) EXCEPT !.reason = "MISSING_FIELDS"]
  ELSE IF ~IsTenDigits(in.phone)
  THEN [Reply("register", 400) EXCEPT !.reason = "BAD_PHONE"]
  ELSE IF ~in.cartNull /\ in.cartTotal < 0
  THEN [Reply("register", 400) EXCEPT !.reason = "NEGATIVE_CART"]
  ELSE NoResponse

\* registerCustomer up to and with generateCustomerId's read
RegisterStartFrom(p, bodies) ==
  /\ pc[p] = "idle"
  /\ \E in \in bodies :
       IF RegisterOutcome(in) # NoResponse
       THEN UNCHANGED vars
       ELSE /\ Continue(p, "r_qn",
                        [NoLocal EXCEPT !.customerId = generateCustomerId,
                                        !.cartNull = in.cartNull])
            /\ UNCHANGED <<customers, queues, nextDocId, now>>

RegisterStart(p) == RegisterStartFrom(p, RegInputs)

\* await Customer.getNextQueueNumber()
RegisterQueueNumber(p) ==
  /\ pc[p] = "r_qn"
  /\ Continue(p, "r_customer",
              [loc[p] EXCEPT !.queueNumber = getNextQueueNumber])
  /\ UNCHANGED <<customers, queues, nextDocId, now>>

\* The answer of a handler's catch block
ServerError(op, l) ==
  [Reply(op, 500) EXCEPT !.verification =
                            IF op = "verify" THEN "ERROR" ELSE "none",
                         !.reason = "ERROR",
                         !.customerId = l.customerId,
                         !.queueNumber = l.queueNumber]

\* The catch block's answer to error code 11000
Conflict == [Reply("register", 409) EXCEPT !.reason = "CONFLICT"]

\* RegisterCreateCustomer on a collection without the unique index
RegisterCreateCustomerNoIndex(p) ==
  /\ pc[p] = "r_customer"
  /\ IF loc[p].cartNull
     THEN /\ Respond(p, ServerError("register", loc[p]), 0)
          /\ UNCHANGED <<customers, queues, nextDocId, now>>
     ELSE /\ nextDocId <= MaxDocs
          /\ now <= MaxTime
          /\ customers' = customers \cup
               {NewCustomer(nextDocId, loc[p].customerId,
                            loc[p].queueNumber, now)}
          /\ nextDocId' = nextDocId + 1
          /\ Tick
          /\ Continue(p, "r_queue", [loc[p] EXCEPT !.doc = nextDocId])
          /\ UNCHANGED queues

\* await Customer.create(..): the schema's validators run first (cartTotal
\* is required: null fails, and the catch block answers 500); customerId is
\* a unique index
RegisterCreateCustomer(p) ==
  /\ pc[p] = "r_customer"
  /\ IF loc[p].cartNull
     THEN /\ Respond(p, ServerError("register", loc[p]), 0)
          /\ UNCHANGED <<customers, queues, nextDocId, now>>
     ELSE IF FindCustomer(loc[p].customerId) # {}
     THEN /\ Respond(p, Conflict, 0)
          /\ UNCHANGED <<customers, queues, nextDocId, now>>
     ELSE /\ nextDocId <= MaxDocs
          /\ now <= MaxTime
          /\ customers' = customers \cup
               {NewCustomer(nextDocId, loc[p].customerId,
                            loc[p].queueNumber, now)}
          /\ nextDocId' = nextDocId + 1
          /\ Tick
          /\ Continue(p, "r_queue", [loc[p] EXCEPT !.doc = nextDocId])
          /\ UNCHANGED queues

\* await Queue.create(..): queueNumber is a unique index
RegisterCreateQueue(p) ==
  /\ pc[p] = "r_queue"
  /\ IF \E q \in queues : q.queueNumber = loc[p].queueNumber
     THEN /\ Respond(p, Conflict, 0)
          /\ UNCHANGED <<customers, queues, nextDocId, now>>
     ELSE /\ queues' = queues \cup
               {NewQueue(loc[p].doc, loc[p].queueNumber,
                         loc[p].customerId, now)}
          /\ Continue(p, "r_position", loc[p])
          /\ UNCHANGED <<customers, nextDocId, now>>

\* await calculateQueuePosition(queueNumber), then the 201 response
RegisterRespond(p) ==
  /\ pc[p] = "r_position"
  /\ LET position == calculateQueuePosition(loc[p].queueNumber) IN
       Respond(p, [Reply("register", 201)
                     EXCEPT !.customerId = loc[p].customerId,
                            !.queueNumber = loc[p].queueNumber,
                            !.status = "WAITING",
                            !.position = position,
                            !.wait = getEstimatedWaitTime(position)],
               loc[p].doc)
  /\ UNCHANGED <<customers, queues, nextDocId, now>>

\* ------------------------------------------------------ document writes
\* doc.save() sends the modified fields to the stored document with the
\* loaded _id: the handlers below apply these to the document as stored.
\* markAsBilled without its assignment to billedAt
markAsBilledKeepsBilledAt(c) == [c EXCEPT !.status = "BILLED"]

\* customerSchema.methods.markAsBilled
markAsBilled(c) == [c EXCEPT !.status = "BILLED", !.billedAt = now]

\* markAsVerified saving the queueNumber path as well, emptied
markAsVerifiedClearsQueueNumber(c) ==
  [c EXCEPT !.status = "VERIFIED", !.verifiedAt = now, !.queueNumber = 0]

\* customerSchema.methods.markAsVerified
markAsVerified(c) == [c EXCEPT !.status = "VERIFIED", !.verifiedAt = now]

\* undoBilling's two assignments
revertToWaiting(c) == [c EXCEPT !.status = "WAITING", !.billedAt = Null]

\* queueSchema.methods.complete
complete(q) == [q EXCEPT !.status = "COMPLETED", !.completedAt = now]

\* identifiers a request can name: every one that can exist, and one more
ArgIds == START_NUMBER .. (START_NUMBER + MaxDocs)

\* --------------------------------------------------------------- billing
\* BillOutcome treating an entry already BILLED as an error
BillOutcomeRejectsBilled(customerId) ==
  LET found == FindCustomer(customerId) IN
    IF found = {}
    THEN [Reply("bill", 404) EXCEPT !.reason = "NOT_FOUND",
                                    !.customerId = customerId]
    ELSE LET c == CHOOSE c \in found : TRUE IN
      IF c.status \in {"VERIFIED", "BILLED"}
      THEN [Reply("bill", 400) EXCEPT !.reason = "ALREADY_VERIFIED",
                                      !.customerId = customerId,
                                      !.status = c.status]
      ELSE NoResponse

\* completeBilling's checks on what Customer.findOne returned: the response
\* sent at once, or NoResponse when the handler goes on to markAsBilled
BillOutcome(customerId) ==
  LET found == FindCustomer(customerId) IN
    IF found = {}
    THEN [Reply("bill", 404) EXCEPT !.reason = "NOT_FOUND",
                                    !.customerId = customerId]
    ELSE LET c == CHOOSE c \in found : TRUE IN
      IF c.status = "VERIFIED"
      THEN [Reply("bill", 400) EXCEPT !.reason = "ALREADY_VERIFIED",
                                      !.customerId = customerId,
                                      !.status = c.status]
      ELSE IF c.status = "BILLED"
      THEN [Reply("bill", 200) EXCEPT !.reason = "ALREADY_BILLED",
                                      !.customerId = customerId,
                                      !.queueNumber = c.queueNumber,
                                      !.status = c.status,
                                      !.billedAt = c.billedAt]
      ELSE NoResponse

\* What a handler keeps of the customer document it loaded
Loaded(c) ==
  [NoLocal EXCEPT !.customerId = c.customerId,
                  !.queueNumber = c.queueNumber,
                  !.doc = c.id,
                  !.billedAt = c.billedAt]

\* completeBilling up to and with Customer.findOne
BillStart(p) ==
  /\ pc[p] = "idle"
  /\ \E customerId \in ArgIds :
       IF BillOutcome(customerId) # NoResponse
       THEN UNCHANGED vars
       ELSE /\ \E c \in FindCustomer(customerId) :
                 Continue(p, "b_mark", Loaded(c))
            /\ UNCHANGED <<customers, queues, nextDocId, now>>

\* await customer.markAsBilled(), then the 200 response
BillMark(p) ==
  /\ pc[p] = "b_mark"
  /\ UNCHANGED <<queues, nextDocId>>
  /\ IF CustomerById(loc[p].doc) = {}
     THEN /\ Respond(p, ServerError("bill", loc[p]), loc[p].doc)
          /\ UNCHANGED <<customers, now>>
     ELSE /\ now <= MaxTime
          /\ customers' = {IF c.id = loc[p].doc THEN markAsBilled(c) ELSE c
                           : c \in customers}
          /\ Tick
          /\ Respond(p, [Reply("bill", 200)
                           EXCEPT !.customerId = loc[p].customerId,
                                  !.queueNumber = loc[p].queueNumber,
                                  !.status = "BILLED",
                                  !.billedAt = now], loc[p].doc)

\* UndoOutcome refusing only entries that are VERIFIED
UndoOutcomeAcceptsWaiting(customerId) ==
  LET found == FindCustomer(customerId) IN
    IF found = {}
    THEN [Reply("undo", 404) EXCEPT !.reason = "NOT_FOUND",
                                    !.customerId = customerId]
    ELSE LET c == CHOOSE c \in found : TRUE IN
      IF c.status = "VERIFIED"
      THEN [Reply("undo", 400) EXCEPT !.reason = "INVALID_STATE",
                                      !.customerId = customerId,
                                      !.status = c.status]
      ELSE NoResponse

\* undoBilling's checks on what Customer.findOne returned
UndoOutcome(customerId) ==
  LET found == FindCustomer(customerId) IN
    IF found = {}
    THEN [Reply("undo", 404) EXCEPT !.reason = "NOT_FOUND",
                                    !.customerId = customerId]
    ELSE LET c == CHOOSE c \in found : TRUE IN
      IF c.status # "BILLED"
      THEN [Reply("undo", 400) EXCEPT !.reason = "INVALID_STATE",
                                      !.customerId = customerId,
                                      !.status = c.status]
      ELSE NoResponse

\* undoBilling up to and with Customer.findOne
UndoStart(p) ==
  /\ pc[p] = "idle"
  /\ \E customerId \in ArgIds :
       IF UndoOutcome(customerId) # NoResponse
       THEN UNCHANGED vars
       ELSE /\ \E c \in FindCustomer(customerId) :
                 Continue(p, "u_save", Loaded(c))
            /\ UNCHANGED <<customers, queues, nextDocId, now>>

\* customer.status = 'WAITING'; customer.billedAt = null; await save()
UndoSave(p) ==
  /\ pc[p] = "u_save"
  /\ UNCHANGED <<queues, nextDocId, now>>
  /\ IF CustomerById(loc[p].doc) = {}
     THEN /\ Respond(p, ServerError("undo", loc[p]), loc[p].doc)
          /\ UNCHANGED customers
     ELSE /\ customers' = {IF c.id = loc[p].doc THEN revertToWaiting(c) ELSE c
                           : c \in customers}
          /\ Respond(p, [Reply("undo", 200)
                           EXCEPT !.customerId = loc[p].customerId,
                                  !.status = "WAITING"], loc[p].doc)

\* ---------------------------------------------------------- JSON and text
\* A string is a sequence of characters.  A JSON text is a sequence of
\* tokens: the punctuation marks, string literals and number literals.
DigitSeq == <<"0", "1", "2", "3", "4", "5", "6", "7", "8", "9">>

\* Number.prototype.toString / JSON.stringify of a natural number
RECURSIVE ToDigits(_)
ToDigits(n) ==
  IF n < 10 THEN <<DigitSeq[n + 1]>>
  ELSE Append(ToDigits(n \div 10), DigitSeq[(n % 10) + 1])

DigitValue(ch) == CHOOSE i \in 0 .. 9 : DigitSeq[i + 1] = ch

\* parseInt / JSON.parse of a sequence of decimal digits
RECURSIVE FromDigits(_)
FromDigits(ds) ==
  IF ds = <<>> THEN 0
  ELSE 10 * FromDigits(SubSeq(ds, 1, Len(ds) - 1)) + DigitValue(ds[Len(ds)])

\* /^\d+$/
AllDigits(chars) ==
  chars # <<>> /\ \A i \in 1 .. Len(chars) : chars[i] \in Digits

\* String.prototype.padStart(width, '0')
RECURSIVE padStart(_, _)
padStart(chars, width) ==
  IF Len(chars) >= width THEN chars ELSE padStart(<<"0">> \o chars, width)

Punct(mark) == [kind |-> mark, text |-> <<>>]

StringLit(chars) == [kind |-> "string", text |-> chars]

\* JSON.stringify writing a number as a string literal
NumberLitAsString(n) ==
  StringLit(IF n < 0 THEN <<"-">> \o ToDigits(0 - n) ELSE ToDigits(n))

\* A number literal: decimal digits, after a minus sign when negative
NumberLit(n) ==
  [kind |-> "number",
   text |-> IF n < 0 THEN <<"-">> \o ToDigits(0 - n) ELSE ToDigits(n)]

StringValue(chars) == [type |-> "string", val |-> chars]

NumberValue(n) == [type |-> "number", val |-> n]

Member(name, value) == [name |-> name, value |-> value]

ValueLit(value) ==
  IF value.type = "number" THEN NumberLit(value.val)
  ELSE StringLit(value.val)

\* JSON.stringify of an object, given as the sequence of its members
RECURSIVE JSONstringifyMembers(_)
JSONstringifyMembers(members) ==
  IF members = <<>> THEN <<>>
  ELSE LET m == Head(members)
           rest == JSONstringifyMembers(Tail(members))
       IN  <<StringLit(m.name), Punct(":"), ValueLit(m.value)>>
             \o (IF rest = <<>> THEN <<>> ELSE <<Punct(",")>> \o rest)

JSONstringify(members) ==
  <<Punct("{")>> \o JSONstringifyMembers(members) \o <<Punct("}")>>

\* The value a literal denotes
LitValue(tok) ==
  IF tok.kind = "string" THEN StringValue(tok.text)
  ELSE IF Head(tok.text) = "-"
       THEN NumberValue(0 - FromDigits(Tail(tok.text)))
       ELSE NumberValue(FromDigits(tok.text))

WellFormedLit(tok) ==
  \/ tok.kind = "string"
  \/ /\ tok.kind = "number"
     /\ AllDigits(IF tok.text # <<>> /\ Head(tok.text) = "-"
                  THEN Tail(tok.text) ELSE tok.text)

\* The tokens between the braces: name : value, separated by commas
RECURSIVE WellFormedMembers(_)
WellFormedMembers(toks) ==
  /\ Len(toks) >= 3
  /\ toks[1].kind = "string"
  /\ toks[2].kind = ":"
  /\ WellFormedLit(toks[3])
  /\ \/ Len(toks) = 3
     \/ /\ Len(toks) > 4
        /\ toks[4].kind = ","
        /\ WellFormedMembers(SubSeq(toks, 5, Len(toks)))

RECURSIVE ParsedMembers(_)
ParsedMembers(toks) ==
  IF Len(toks) < 3 THEN <<>>
  ELSE <<Member(toks[1].text, LitValue(toks[3]))>>
         \o ParsedMembers(SubSeq(toks, 5, Len(toks)))

\* JSON.parse of a text that should hold an object: whether it parses
JSONparses(toks) ==
  /\ Len(toks) >= 2
  /\ toks[1].kind = "{"
  /\ toks[Len(toks)].kind = "}"
  /\ \/ Len(toks) = 2
     \/ WellFormedMembers(SubSeq(toks, 2, Len(toks) - 1))

\* JSON.parse: the members of the object (for a text that parses)
JSONparse(toks) == ParsedMembers(SubSeq(toks, 2, Len(toks) - 1))

Undefined == [type |-> "undefined", val |-> 0]

\* obj[name]: the value of the last member with that name
RECURSIVE Field(_, _)
Field(members, name) ==
  IF members = <<>> THEN Undefined
  ELSE IF members[Len(members)].name = name
       THEN members[Len(members)].value
       ELSE Field(SubSeq(members, 1, Len(members) - 1), name)

\* ------------------------------------------------------------ credentials
\* What a scanned string holds once JSON.parse has run: whether it parsed,
\* whether customerId is present and of the form SM-<digits>, and the type
\* and value of queueNumber.
GoodPayload(customerId, queueNumber) ==
  [parses |-> TRUE, idForm |-> "SM", customerId |-> customerId,
   qnType |-> "number", queueNumber |-> queueNumber]

BadPayloads ==
  {[GoodPayload(START_NUMBER, 1) EXCEPT !.parses = FALSE],
   [GoodPayload(START_NUMBER, 1) EXCEPT !.idForm = "missing"],
   [GoodPayload(START_NUMBER, 1) EXCEPT !.idForm = "other"],
   [GoodPayload(START_NUMBER, 1) EXCEPT !.qnType = "missing"],
   [GoodPayload(START_NUMBER, 1) EXCEPT !.qnType = "string"],
   GoodPayload(START_NUMBER, 0),
   GoodPayload(START_NUMBER, -1)}

Payloads ==
  BadPayloads \cup
  {GoodPayload(i, n) : i \in CustomerIds, n \in QueueNumbers}

\* qrDataArray elements: every well-formed credential and one string that
\* does not parse
BulkPayloads ==
  {[GoodPayload(START_NUMBER, 1) EXCEPT !.parses = FALSE]} \cup
  {GoodPayload(i, n) : i \in CustomerIds, n \in QueueNumbers}

\* The checks inside decodeQRData's try block: the message thrown, or "ok"
decodeChecks(pl) ==
  IF ~pl.parses THEN "SyntaxError"
  ELSE IF pl.idForm = "missing" \/ pl.qnType = "missing"
          \/ (pl.qnType = "number" /\ pl.queueNumber = 0)
       THEN "Invalid QR code: Missing required fields"
  ELSE IF pl.idForm # "SM" THEN "Invalid customer ID format"
  ELSE IF pl.qnType # "number" \/ pl.queueNumber < 1
       THEN "Invalid queue number"
  ELSE "ok"

\* decodeQRData: its catch block rethrows every failure under one message
decodeQRData(pl) ==
  IF decodeChecks(pl) = "ok" THEN "ok" ELSE "Invalid QR code format"

\* ------------------------------------------------------------- the codec
\* generateCustomerId's formatting of the number n: "SM-" and n padded to
\* four digits
customerIdText(n) == <<"S", "M", "-">> \o padStart(ToDigits(n), 4)

\* Date.prototype.toISOString of the instant t.  The clock of the model
\* counts whole units, and the text of an instant is its count followed by
\* "Z": as in the source, two instants have the same text only when equal.
toISOString(t) == ToDigits(t) \o <<"Z">>

\* generateQRCode: the text it puts into the QR image, built from the data
\* it is given and the clock.  (The image is the carrier: the scanner hands
\* decodeQRData the text the image holds.)
qrPayload(data, t) ==
  JSONstringify(<<Member("customerId", data.customerId),
                  Member("queueNumber", data.queueNumber),
                  Member("timestamp", StringValue(toISOString(t)))>>)

\* !value
Falsy(value) ==
  \/ value.type = "undefined"
  \/ value.type = "string" /\ value.val = <<>>
  \/ value.type = "number" /\ value.val = 0

\* value.match(/^SM-\d+$/), for a string
MatchesSM(value) ==
  /\ value.type = "string"
  /\ Len(value.val) > 3
  /\ SubSeq(value.val, 1, 3) = <<"S", "M", "-">>
  /\ AllDigits(SubSeq(value.val, 4, Len(value.val)))

\* What decodeQRData's checks see of a scanned text: the record the
\* handlers' requests are drawn from
Scanned(toks) ==
  IF ~JSONparses(toks)
  THEN [GoodPayload(START_NUMBER, 1) EXCEPT !.parses = FALSE]
  ELSE LET obj == JSONparse(toks)
           id == Field(obj, "customerId")
           qn == Field(obj, "queueNumber")
       IN  [parses |-> TRUE,
            idForm |-> IF Falsy(id) THEN "missing"
                       ELSE IF MatchesSM(id) THEN "SM" ELSE "other",
            customerId |-> IF MatchesSM(id)
                           THEN FromDigits(SubSeq(id.val, 4, Len(id.val)))
                           ELSE START_NUMBER,
            qnType |-> IF qn.type = "number" THEN "number"
                       ELSE IF Falsy(qn) THEN "missing" ELSE "string",
            queueNumber |-> IF qn.type = "number" THEN qn.val ELSE 1]

\* Data handed to generateQRCode: identifiers in and out of the SM-<digits>
\* form, queue numbers positive and not
CodecIds ==
  {customerIdText(1), customerIdText(START_NUMBER), customerIdText(12345),
   <<"X", "Y", "-", "7">>}

CodecQueueNumbers == {1, 2, 10, 305, 0, -1}

CodecData ==
  [customerId : {StringValue(i) : i \in CodecIds},
   queueNumber : {NumberValue(n) : n \in CodecQueueNumbers}]

\* Texts no generateQRCode call made: not JSON, an object cut short, members
\* missing, a queue number that is a string
CodecTexts ==
  {<<[kind |-> "junk", text |-> <<"h", "i">>]>>,
   SubSeq(qrPayload([customerId |-> StringValue(customerIdText(START_NUMBER)),
                     queueNumber |-> NumberValue(1)], 1), 1, 11),
   JSONstringify(<<>>),
   JSONstringify(<<Member("queueNumber", NumberValue(1))>>),
   JSONstringify(<<Member("customerId",
                          StringValue(customerIdText(START_NUMBER)))>>),
   JSONstringify(<<Member("customerId",
                          StringValue(customerIdText(START_NUMBER))),
                   Member("queueNumber", StringValue(<<"1">>))>>),
   JSONstringify(<<Member("customerId", NumberValue(7)),
                   Member("queueNumber", NumberValue(1))>>)}

InitCodec ==
  /\ InitServer
  /\ \/ \E d \in CodecData : call = [NoCall EXCEPT !.stage = "data",
                                                     !.data = d]
     \/ \E x \in CodecTexts : call = [NoCall EXCEPT !.stage = "text",
                                                      !.text = x]

server == <<customers, queues, nextDocId, pc, loc, response,
            issued, verifiedDocs, sawSuccess, sawIssued, failures>>

\* Time passes before the credential is made
CodecTick ==
  /\ call.stage = "data"
  /\ now < MaxTime
  /\ Tick
  /\ UNCHANGED <<server, call>>

\* generateQRCode(data)
Encode ==
  /\ call.stage = "data"
  /\ call' = [call EXCEPT !.stage = "text", !.t = now,
                            !.text = qrPayload(call.data, now)]
  /\ UNCHANGED <<server, now>>

\* decodeQRData(qrData): the message thrown or "ok", and the object returned
Decode ==
  /\ call.stage = "text"
  /\ LET result == decodeQRData(Scanned(call.text))
     IN  call' = [call EXCEPT
                     !.stage = "done",
                     !.result = result,
                     !.parsedData = IF result = "ok"
                                    THEN JSONparse(call.text) ELSE <<>>]
  /\ UNCHANGED <<server, now>>

NextCodec == CodecTick \/ Encode \/ Decode

SpecCodec == InitCodec /\ [][NextCodec]_vars

\* ------------------------------------------------------------ the intake
\* Registration alone, with every body of RegBodies
NextIntake ==
  \E p \in Procs :
    \/ RegisterStartFrom(p, RegBodies)
    \/ RegisterQueueNumber(p)
    \/ RegisterCreateCustomer(p)
    \/ RegisterCreateQueue(p)
    \/ RegisterRespond(p)

SpecIntake == Init /\ [][NextIntake]_vars

\* ----------------------------------------------------- the wait estimate
\* Positions handed to getEstimatedWaitTime: any integer, the ones no
\* queue produces included
WaitPositions == (0 - MaxPosition) .. MaxPosition

InitWait ==
  /\ InitServer
  /\ \E position \in WaitPositions :
       call = [NoCall EXCEPT !.stage = "position", !.data = position]

\* getEstimatedWaitTime(position)
EstimateWait ==
  /\ call.stage = "position"
  /\ call' = [call EXCEPT !.stage = "estimated",
                          !.result = getEstimatedWaitTime(call.data)]
  /\ UNCHANGED <<server, now>>

SpecWait == InitWait /\ [][EstimateWait]_vars

\* ----------------------------------------------------------- verification
\* verifyCheck without step 5, the test that billing is complete
verifyCheckNoBillingTest(c, queueNumber) ==
  IF c.queueNumber # queueNumber THEN "DATA_MISMATCH"
  ELSE IF c.status = "VERIFIED" THEN "DUPLICATE_SCAN"
  ELSE "proceed"

\* verifyCheck also refusing a customer while one ahead of it in the queue
\* has not left
verifyCheckInQueueOrder(c, queueNumber) ==
  IF c.queueNumber # queueNumber THEN "DATA_MISMATCH"
  ELSE IF c.status = "VERIFIED" THEN "DUPLICATE_SCAN"
  ELSE IF c.status # "BILLED" THEN "NOT_BILLED"
  ELSE IF \E d \in customers : /\ d.queueNumber < c.queueNumber
                               /\ d.status # "VERIFIED"
       THEN "NOT_BILLED"
  ELSE "proceed"

\* verifyQRCode's steps 3 to 5 on the loaded customer
verifyCheck(c, queueNumber) ==
  IF c.queueNumber # queueNumber THEN "DATA_MISMATCH"
  ELSE IF c.status = "VERIFIED" THEN "DUPLICATE_SCAN"
  ELSE IF c.status # "BILLED" THEN "NOT_BILLED"
  ELSE "proceed"

VerifyFailed(code, reason, pl) ==
  [Reply("verify", code) EXCEPT !.verification = "FAILED",
                                !.reason = reason,
                                !.customerId = pl.customerId,
                                !.queueNumber = pl.queueNumber]

\* verifyQRCode's steps 1 to 5: the response sent at once, or NoResponse
\* when the handler goes on to markAsVerified
VerifyOutcome(pl) ==
  IF decodeQRData(pl) # "ok"
  THEN [Reply("verify", 400) EXCEPT !.reason = decodeQRData(pl)]
  ELSE LET found == FindCustomer(pl.customerId) IN
    IF found = {} THEN VerifyFailed(404, "INVALID_QR", pl)
    ELSE LET c == CHOOSE c \in found : TRUE
             check == verifyCheck(c, pl.queueNumber) IN
      IF check = "proceed" THEN NoResponse
      ELSE [VerifyFailed(400, check, pl)
              EXCEPT !.status = IF check = "NOT_BILLED" THEN c.status
                                ELSE "none",
                     !.verifiedAt = IF check = "DUPLICATE_SCAN"
                                    THEN c.verifiedAt ELSE Null]

\* verifyQRCode up to and with Customer.findOne, and its checks
VerifyStart(p) ==
  /\ pc[p] = "idle"
  /\ \E pl \in Payloads :
       IF VerifyOutcome(pl) # NoResponse
       THEN UNCHANGED vars
       ELSE /\ \E c \in FindCustomer(pl.customerId) :
                 Continue(p, "v_mark",
                          [Loaded(c) EXCEPT !.queueNumber = pl.queueNumber])
            /\ UNCHANGED <<customers, queues, nextDocId, now>>

\* await customer.markAsVerified()
VerifyMark(p) ==
  /\ pc[p] = "v_mark"
  /\ UNCHANGED <<queues, nextDocId>>
  /\ IF CustomerById(loc[p].doc) = {}
     THEN /\ Respond(p, ServerError("verify", loc[p]), loc[p].doc)
          /\ UNCHANGED <<customers, now>>
     ELSE /\ now <= MaxTime
          /\ customers' = {IF c.id = loc[p].doc THEN markAsVerified(c) ELSE c
                           : c \in customers}
          /\ Tick
          /\ Continue(p, "v_qfind", [loc[p] EXCEPT !.verifiedAt = now])

VerifySuccess(l) ==
  [Reply("verify", 200) EXCEPT !.verification = "SUCCESS",
                               !.customerId = l.customerId,
                               !.queueNumber = l.queueNumber,
                               !.status = "VERIFIED",
                               !.billedAt = l.billedAt,
                               !.verifiedAt = l.verifiedAt]

\* await Queue.findOne({ customerId, status: 'ACTIVE' })
VerifyFindQueue(p) ==
  /\ pc[p] = "v_qfind"
  /\ UNCHANGED <<customers, queues, nextDocId, now>>
  /\ LET found == {q \in queues : q.customerId = loc[p].customerId
                                   /\ q.status = "ACTIVE"} IN
       IF found = {}
       THEN Respond(p, VerifySuccess(loc[p]), loc[p].doc)
       ELSE \E q \in found :
              Continue(p, "v_complete", [loc[p] EXCEPT !.qdoc = q.id])

\* await queueEntry.complete(), then the SUCCESS response
VerifyComplete(p) ==
  /\ pc[p] = "v_complete"
  /\ UNCHANGED <<customers, nextDocId, now>>
  /\ IF QueueById(loc[p].qdoc) = {}
     THEN /\ Respond(p, ServerError("verify", loc[p]), loc[p].doc)
          /\ UNCHANGED queues
     ELSE /\ queues' = {IF q.id = loc[p].qdoc THEN complete(q) ELSE q
                        : q \in queues}
          /\ Respond(p, VerifySuccess(loc[p]), loc[p].doc)

\* ------------------------------------------------------ bulk verification
RECURSIVE SeqsUpTo(_, _)
SeqsUpTo(S, n) ==
  IF n = 0 THEN {<<>>}
  ELSE LET shorter == SeqsUpTo(S, n - 1) IN
         shorter \cup {Append(sq, x) : sq \in shorter, x \in S}

BulkResult(customerId, status, reason) ==
  [customerId |-> customerId, status |-> status, reason |-> reason]

NoResult == BulkResult(0, "none", "none")

\* One turn of bulkVerifyQRCodes' loop up to its test of the loaded
\* customer: the result pushed at once, or NoResult when the turn goes on
\* to markAsVerified
BulkItemOutcome(pl) ==
  IF decodeQRData(pl) # "ok"
  THEN BulkResult(0, "ERROR", decodeQRData(pl))
  ELSE LET found == FindCustomer(pl.customerId) IN
    IF found = {} THEN BulkResult(pl.customerId, "FAILED", "NOT_FOUND")
    ELSE IF (CHOOSE c \in found : TRUE).status = "BILLED" THEN NoResult
    ELSE BulkResult(pl.customerId, "FAILED", "INVALID_STATUS")

BulkResponse(results) == [Reply("bulk", 200) EXCEPT !.results = results]

\* The result of a turn is pushed; the loop takes the next item or ends
BulkPush(p, result, rest) ==
  IF rest = <<>>
  THEN Respond(p, BulkResponse(Append(loc[p].results, result)), 0)
  ELSE Continue(p, "bk_find",
                [NoLocal EXCEPT !.items = rest,
                                !.results = Append(loc[p].results, result)])

\* A turn finds its customer BILLED and goes on to markAsVerified
BulkProceed(p, pl, rest) ==
  \E c \in FindCustomer(pl.customerId) :
    Continue(p, "bk_mark",
             [Loaded(c) EXCEPT !.queueNumber = pl.queueNumber,
                               !.items = rest,
                               !.results = loc[p].results])

\* bulkVerifyQRCodes: the request arrives with its qrDataArray
BulkStart(p) ==
  /\ pc[p] = "idle"
  /\ \E items \in SeqsUpTo(BulkPayloads, MaxBulkLen) :
       IF items = <<>>
       THEN UNCHANGED vars
       ELSE /\ Continue(p, "bk_find", [NoLocal EXCEPT !.items = items])
            /\ UNCHANGED <<customers, queues, nextDocId, now>>

\* One turn of the loop up to and with its Customer.findOne
BulkFind(p) ==
  /\ pc[p] = "bk_find"
  /\ UNCHANGED <<customers, queues, nextDocId, now>>
  /\ LET pl == Head(loc[p].items)
         rest == Tail(loc[p].items) IN
       IF BulkItemOutcome(pl) # NoResult
       THEN BulkPush(p, BulkItemOutcome(pl), rest)
       ELSE BulkProceed(p, pl, rest)

\* await customer.markAsVerified() inside the loop
BulkMark(p) ==
  /\ pc[p] = "bk_mark"
  /\ UNCHANGED <<queues, nextDocId>>
  /\ IF CustomerById(loc[p].doc) = {}
     THEN /\ BulkPush(p, BulkResult(0, "ERROR", "save"), loc[p].items)
          /\ UNCHANGED <<customers, now>>
     ELSE /\ now <= MaxTime
          /\ customers' = {IF c.id = loc[p].doc THEN markAsVerified(c) ELSE c
                           : c \in customers}
          /\ Tick
          /\ BulkPush(p, BulkResult(loc[p].customerId, "SUCCESS", "none"),
                      loc[p].items)

\* ---------------------------------------------------------------- delete
\* deleteCustomer's answer when Customer.findOneAndDelete finds nothing
DeleteOutcome(customerId) ==
  IF FindCustomer(customerId) = {}
  THEN [Reply("delete", 404) EXCEPT !.reason = "NOT_FOUND",
                                    !.customerId = customerId]
  ELSE NoResponse

\* deleteCustomer: Customer.findOneAndDelete({ customerId })
DeleteStart(p) ==
  /\ pc[p] = "idle"
  /\ \E customerId \in ArgIds :
       IF DeleteOutcome(customerId) # NoResponse
       THEN UNCHANGED vars
       ELSE /\ \E c \in FindCustomer(customerId) :
                 /\ customers' = customers \ {c}
                 /\ Continue(p, "d_queue", Loaded(c))
            /\ UNCHANGED <<queues, nextDocId, now>>

\* await Queue.deleteOne({ customerId }), then the 200 response
DeleteQueue(p) ==
  /\ pc[p] = "d_queue"
  /\ UNCHANGED <<customers, nextDocId, now>>
  /\ LET found == {q \in queues : q.customerId = loc[p].customerId} IN
       /\ IF found = {} THEN UNCHANGED queues
          ELSE \E q \in found : queues' = queues \ {q}
       /\ Respond(p, [Reply("delete", 200)
                        EXCEPT !.customerId = loc[p].customerId], loc[p].doc)

\* -------------------------------------------------------- queue position
\* PositionOutcome sending a VERIFIED entry on to the count like any other
PositionOutcomeRanksVerified(customerId) ==
  IF FindCustomer(customerId) = {}
  THEN [Reply("position", 404) EXCEPT !.reason = "NOT_FOUND",
                                      !.customerId = customerId]
  ELSE NoResponse

\* getQueuePosition's checks on what Customer.findOne returned; position 0
\* stands for position: null
PositionOutcome(customerId) ==
  LET found == FindCustomer(customerId) IN
    IF found = {}
    THEN [Reply("position", 404) EXCEPT !.reason = "NOT_FOUND",
                                        !.customerId = customerId]
    ELSE LET c == CHOOSE c \in found : TRUE IN
      IF c.status = "VERIFIED"
      THEN [Reply("position", 200) EXCEPT !.reason = "ALREADY_VERIFIED",
                                          !.customerId = customerId,
                                          !.status = "VERIFIED"]
      ELSE NoResponse

\* customersAhead counting the customer's own queueNumber too
customersAheadInclusive(queueNumber) ==
  Cardinality({c \in customers : c.status \in {"WAITING", "BILLED"}
                                  /\ c.queueNumber <= queueNumber})

\* Customer.countDocuments({ status: { $in: ['WAITING', 'BILLED'] },
\*                           queueNumber: { $lt: customer.queueNumber } })
customersAhead(queueNumber) ==
  Cardinality({c \in customers : c.status \in {"WAITING", "BILLED"}
                                  /\ c.queueNumber < queueNumber})

\* getQueuePosition up to and with Customer.findOne
PositionStart(p) ==
  /\ pc[p] = "idle"
  /\ \E customerId \in ArgIds :
       IF PositionOutcome(customerId) # NoResponse
       THEN UNCHANGED vars
       ELSE /\ \E c \in FindCustomer(customerId) :
                 Continue(p, "q_count",
                          [Loaded(c) EXCEPT !.status = c.status])
            /\ UNCHANGED <<customers, queues, nextDocId, now>>

\* await Customer.countDocuments(..), then the 200 response
PositionCount(p) ==
  /\ pc[p] = "q_count"
  /\ UNCHANGED <<customers, queues, nextDocId, now>>
  /\ Respond(p, [Reply("position", 200)
                   EXCEPT !.customerId = loc[p].customerId,
                          !.queueNumber = loc[p].queueNumber,
                          !.status = loc[p].status,
                          !.position = customersAhead(loc[p].queueNumber) + 1],
             loc[p].doc)

\* ------------------------------------------------------- current queue
\* One clock unit of the model is one minute
MsPerTick == 60000

\* customerSchema / getCurrentQueue: the filter status $in [WAITING, BILLED]
ActiveCustomers == {c \in customers : c.status \in {"WAITING", "BILLED"}}

\* .select('customerId name phone queueNumber cartTotal status createdAt')
Selected(c) ==
  [customerId |-> c.customerId, queueNumber |-> c.queueNumber,
   status |-> c.status, createdAt |-> c.createdAt]

\* .sort({ queueNumber: 1 }): every order of S that does not put a larger
\* queueNumber before a smaller one (documents with equal queueNumber come
\* in an order the store chooses)
SortedByQueueNumber(S) ==
  {s \in [1 .. Cardinality(S) -> S] :
     /\ \A i, j \in 1 .. Cardinality(S) : i # j => s[i] # s[j]
     /\ \A i, j \in 1 .. Cardinality(S) :
          i < j => s[i].queueNumber <= s[j].queueNumber}

\* reduce((sum, queue) => sum + (queue.completedAt - queue.enteredAt), 0),
\* in milliseconds
RECURSIVE totalWaitTime(_)
totalWaitTime(S) ==
  IF S = {} THEN 0
  ELSE LET q == CHOOSE q \in S : TRUE
       IN  (q.completedAt - q.enteredAt) * MsPerTick
             + totalWaitTime(S \ {q})

\* queueSchema.statics.getAverageWaitTime: minutes, as the fraction
\* totalWaitTime / (length * 1000 * 60)
getAverageWaitTime ==
  LET completedQueues ==
        {q \in queues : q.status = "COMPLETED" /\ q.completedAt # Null}
  IN  IF completedQueues = {} THEN [num |-> 0, den |-> 1]
      ELSE [num |-> totalWaitTime(completedQueues),
            den |-> Cardinality(completedQueues) * 1000 * 60]

\* Math.round of a fraction that is not negative
MathRound(f) == (2 * f.num + f.den) \div (2 * f.den)

\* The four queries of getQueueStatistics' Promise.all
getQueueStatistics ==
  LET active == {q \in queues : q.status = "ACTIVE"}
      avgWaitTime == getAverageWaitTime
  IN  [activeQueueSize |-> Cardinality(active),
       totalServed |-> Cardinality({q \in queues : q.status = "COMPLETED"}),
       averageWaitTime |-> avgWaitTime,
       rounded |-> MathRound(avgWaitTime),
       nextQueue |-> IF active = {} THEN 0
                     ELSE (CHOOSE q \in active :
                             \A r \in active : q.queueNumber <= r.queueNumber
                          ).customerId,
       nextCustomer |-> 0]

CurrentQueueResponse(l) ==
  [Reply("queue", 200) EXCEPT !.queue = l.queue,
                              !.statistics = l.statistics]

\* getCurrentQueue up to and with Customer.find(..).sort(..)
CurrentQueueFind(p) ==
  /\ pc[p] = "idle"
  /\ \E s \in SortedByQueueNumber(ActiveCustomers) :
       Continue(p, "cq_stats",
                [NoLocal EXCEPT !.queue =
                   [i \in 1 .. Cardinality(ActiveCustomers)
                      |-> Selected(s[i])]])
  /\ UNCHANGED <<customers, queues, nextDocId, now>>

\* getQueueStatistics' Promise.all; without an ACTIVE slot the response
\* follows at once
CurrentQueueStats(p) ==
  /\ pc[p] = "cq_stats"
  /\ UNCHANGED <<customers, queues, nextDocId, now>>
  /\ LET l == [loc[p] EXCEPT !.statistics = getQueueStatistics] IN
       IF l.statistics.nextQueue = 0
       THEN Respond(p, CurrentQueueResponse(l), 0)
       ELSE Continue(p, "cq_next", l)

\* getQueueStatistics' Customer.findOne for the next customer, then the
\* 200 response
CurrentQueueNext(p) ==
  /\ pc[p] = "cq_next"
  /\ UNCHANGED <<customers, queues, nextDocId, now>>
  /\ LET found == FindCustomer(loc[p].statistics.nextQueue)
         l == [loc[p] EXCEPT !.statistics.nextCustomer =
                 IF found = {} THEN 0 ELSE loc[p].statistics.nextQueue]
     IN  Respond(p, CurrentQueueResponse(l), 0)

\* ------------------------------------------------------- next customer
\* getNextCustomerToServe taking the first entry of the active queue, BILLED
\* entries included
getNextCustomerAmongActive ==
  {c \in ActiveCustomers :
     \A d \in ActiveCustomers : c.queueNumber <= d.queueNumber}

\* getNextCustomerToServe: Customer.findOne({ status: 'WAITING' })
\* .sort({ queueNumber: 1 }): the documents it can return (none: null)
getNextCustomerToServe ==
  LET waiting == {c \in customers : c.status = "WAITING"}
  IN  {c \in waiting : \A d \in waiting : c.queueNumber <= d.queueNumber}

\* getNextCustomer: one store read, then the 200 response; customerId 0
\* stands for data: null ('Queue is empty')
GetNextCustomer(p) ==
  /\ pc[p] = "idle"
  /\ UNCHANGED <<customers, queues, nextDocId, now>>
  /\ IF getNextCustomerToServe = {}
     THEN Respond(p, Reply("next", 200), 0)
     ELSE \E c \in getNextCustomerToServe :
            Respond(p, [Reply("next", 200)
                          EXCEPT !.customerId = c.customerId,
                                 !.queueNumber = c.queueNumber,
                                 !.status = c.status], 0)

\* --------------------------------------------------------- store failures
OpOf(p) ==
  CASE pc[p] \in RegisterPcs -> "register"
    [] pc[p] \in VerifyPcs -> "verify"
    [] pc[p] = "b_mark" -> "bill"
    [] pc[p] = "u_save" -> "undo"
    [] pc[p] = "d_queue" -> "delete"
    [] pc[p] = "q_count" -> "position"
    [] pc[p] \in {"cq_stats", "cq_next"} -> "queue"
    [] OTHER -> "bulk"

\* The store operation a handler awaits rejects (the store is unreachable):
\* the handler's catch block answers 500.  Inside bulk verification's loop
\* the inner catch pushes an ERROR result and the loop goes on.
StoreFailure(p) ==
  /\ pc[p] # "idle"
  /\ failures < MaxFailures
  /\ failures' = failures + 1
  /\ UNCHANGED <<customers, queues, nextDocId, now>>
  /\ IF pc[p] \in {"bk_find", "bk_mark"}
     THEN LET rest == IF pc[p] = "bk_find" THEN Tail(loc[p].items)
                      ELSE loc[p].items
              results == Append(loc[p].results,
                                BulkResult(0, "ERROR", "store")) IN
            IF rest = <<>> THEN End(p, BulkResponse(results), 0)
            ELSE Stay(p, "bk_find", [NoLocal EXCEPT !.items = rest,
                                                    !.results = results])
     ELSE End(p, ServerError(OpOf(p), loc[p]), loc[p].doc)

\* ------------------------------------------------------------------ next
Registration(p) ==
  \/ RegisterStart(p)
  \/ RegisterQueueNumber(p)
  \/ RegisterCreateCustomer(p)
  \/ RegisterCreateQueue(p)
  \/ RegisterRespond(p)

Billing(p) ==
  \/ BillStart(p)
  \/ BillMark(p)
  \/ UndoStart(p)
  \/ UndoSave(p)

Verification(p) ==
  \/ VerifyStart(p)
  \/ VerifyMark(p)
  \/ VerifyFindQueue(p)
  \/ VerifyComplete(p)

BulkVerification(p) ==
  \/ BulkStart(p)
  \/ BulkFind(p)
  \/ BulkMark(p)

Deletion(p) ==
  \/ DeleteStart(p)
  \/ DeleteQueue(p)

\* Every handler, the store answering every operation
Next ==
  \E p \in Procs :
    \/ Registration(p)
    \/ Billing(p)
    \/ Verification(p)
    \/ BulkVerification(p)
    \/ Deletion(p)

Spec == Init /\ [][Next]_vars

\* The handlers of the checkout flow alone: no bulk verification, no delete
NextCore ==
  \E p \in Procs :
    \/ Registration(p)
    \/ Billing(p)
    \/ Verification(p)

SpecCore == Init /\ [][NextCore]_vars

\* The steps of a handler of the checkout flow after its first one: what
\* the event loop runs when the awaited store operation has answered
Running(p) ==
  \/ RegisterQueueNumber(p)
  \/ RegisterCreateCustomer(p)
  \/ RegisterCreateQueue(p)
  \/ RegisterRespond(p)
  \/ BillMark(p)
  \/ UndoSave(p)
  \/ VerifyMark(p)
  \/ VerifyFindQueue(p)
  \/ VerifyComplete(p)

\* The checkout flow where every handler that has started keeps running
\* and the store answers every operation; no request has to arrive
SpecCoreLive ==
  /\ Init
  /\ [][NextCore]_vars
  /\ \A p \in Procs : WF_vars(Running(p))

\* The checkout flow with a store that can reject an awaited operation
NextCrash ==
  \E p \in Procs :
    \/ Registration(p)
    \/ Billing(p)
    \/ Verification(p)
    \/ StoreFailure(p)

SpecCrash == Init /\ [][NextCrash]_vars

\* The checkout flow and the queue's read requests
QueueReads(p) ==
  \/ PositionStart(p)
  \/ PositionCount(p)

NextQueue ==
  \E p \in Procs :
    \/ Registration(p)
    \/ Billing(p)
    \/ Verification(p)
    \/ QueueReads(p)

SpecQueue == Init /\ [][NextQueue]_vars

CurrentQueue(p) ==
  \/ CurrentQueueFind(p)
  \/ CurrentQueueStats(p)
  \/ CurrentQueueNext(p)

\* The checkout flow with the dashboard's read of the current queue
NextDashboard ==
  \E p \in Procs :
    \/ Registration(p)
    \/ Billing(p)
    \/ Verification(p)
    \/ CurrentQueue(p)

SpecDashboard == Init /\ [][NextDashboard]_vars

\* The server after one registration has completed: SM-1001 holds
\* queueNumber 1.  Document _ids are opaque, so the two documents carry an
\* _id that no later document is given.
InitOneRegistered ==
  /\ customers = {NewCustomer(MaxDocs + 1, START_NUMBER, 1, 1)}
  /\ queues = {NewQueue(MaxDocs + 1, 1, START_NUMBER, 1)}
  /\ nextDocId = 1
  /\ now = 2
  /\ pc = [p \in Procs |-> "idle"]
  /\ loc = [p \in Procs |-> NoLocal]
  /\ response = NoResponse
  /\ issued = {1}
  /\ verifiedDocs = {}
  /\ sawSuccess = [p \in Procs |-> FALSE]
  /\ sawIssued = [p \in Procs |-> {}]
  /\ failures = 0
  /\ call = NoCall

\* Registration, the admin's delete and the dashboard, from that state
NextReception ==
  \E p \in Procs :
    \/ Registration(p)
    \/ Deletion(p)
    \/ CurrentQueue(p)

SpecReception == InitOneRegistered /\ [][NextReception]_vars

\* The checkout flow with the cashier's request for the next customer
NextServe ==
  \E p \in Procs :
    \/ Registration(p)
    \/ Billing(p)
    \/ Verification(p)
    \/ GetNextCustomer(p)

SpecServe == Init /\ [][NextServe]_vars

\* The checkout flow with bulk verification and the dashboard
NextStatistics ==
  \E p \in Procs :
    \/ Registration(p)
    \/ Billing(p)
    \/ Verification(p)
    \/ BulkVerification(p)
    \/ CurrentQueue(p)

SpecStatistics == Init /\ [][NextStatistics]_vars

\* ================================================================ claims
\* The credential printed for a customer document
CredentialOf(c) == GoodPayload(c.customerId, c.queueNumber)

\* The queue documents that are the slot of customer document c
SlotsOf(c) == {q \in queues : q.customerId = c.customerId}

\* C1: of the verify calls running concurrently for one BILLED entry's
\* credential exactly one returns SUCCESS: a call that was in flight while
\* another call for the same credential returned SUCCESS ends with
\* FAILED / DUPLICATE_SCAN.
C1_OneSuccessPerCredential ==
  [][\A p \in Procs :
       (pc[p] \in VerifyPcs /\ sawSuccess[p] /\ pc'[p] = "idle")
         => (response'.verification = "FAILED"
             /\ response'.reason = "DUPLICATE_SCAN")]_vars

\* C2: once a verify call has returned SUCCESS for an entry, a verify call
\* for that entry's credential returns FAILED / DUPLICATE_SCAN with the
\* verifiedAt the SUCCESS response carried, and ends at its checks (it
\* writes nothing).
C2_LaterScanIsDuplicate ==
  \A v \in verifiedDocs : \A c \in CustomerById(v[1]) :
    LET out == VerifyOutcome(CredentialOf(c)) IN
      /\ out.verification = "FAILED"
      /\ out.reason = "DUPLICATE_SCAN"
      /\ out.verifiedAt = v[2]

\* C3: an entry whose status is VERIFIED keeps that status for as long as
\* it is stored, whatever step of bill, undoBill, verify or bulk verify
\* comes next.
C3_VerifiedIsTerminal ==
  [][\A c \in customers : \A d \in customers' :
       (d.id = c.id /\ c.status = "VERIFIED") => d.status = "VERIFIED"]_vars

\* C4: verifiedAt is written at most once per entry: once it holds a
\* timestamp no step changes it.
C4_VerifiedAtWrittenOnce ==
  [][\A c \in customers : \A d \in customers' :
       (d.id = c.id /\ c.verifiedAt # Null)
         => d.verifiedAt = c.verifiedAt]_vars

\* C5: register calls that run concurrently return pairwise distinct
\* positions: a 201 response never carries a queueNumber another register
\* call returned while this one was in flight.
C5_ConcurrentPositionsDistinct ==
  [][\A p \in Procs :
       (pc[p] \in RegisterPcs /\ pc'[p] = "idle" /\ response'.code = 201)
         => response'.queueNumber \notin sawIssued[p]]_vars

\* C6: a position register has returned is never returned again by a
\* later register call, also after the entry that held it was deleted: a
\* 201 response carries a queueNumber no earlier 201 response carried.
C6_PositionsNeverReused ==
  [][(response'.op = "register" /\ response'.code = 201)
       => response'.queueNumber \notin issued]_vars

\* C7: a verify call with the credential of an entry in status WAITING
\* returns FAILED / NOT_BILLED from its checks, that is before any write:
\* the entry is unchanged.
C7_WaitingIsNotBilled ==
  \A c \in customers :
    c.status = "WAITING" =>
      LET out == VerifyOutcome(CredentialOf(c)) IN
        /\ out # NoResponse
        /\ out.code = 400
        /\ out.verification = "FAILED"
        /\ out.reason = "NOT_BILLED"
        /\ out.status = "WAITING"

\* C7's case: an entry back in WAITING after billing was undone, and the
\* verify call with its credential answering NOT_BILLED
C7_Witness ==
  /\ response.op = "undo" /\ response.code = 200
  /\ \E c \in customers :
       /\ c.customerId = response.customerId
       /\ c.status = "WAITING"
       /\ VerifyOutcome(CredentialOf(c)).reason = "NOT_BILLED"

\* C8: no step takes an entry from WAITING straight to VERIFIED, also when
\* verify races undoBill.
C8_NoWaitingToVerified ==
  [][\A c \in customers : \A d \in customers' :
       (d.id = c.id /\ c.status = "WAITING") => d.status # "VERIFIED"]_vars

\* C9: the entry's VERIFIED status and its slot's COMPLETED status are
\* applied together: no state holds a VERIFIED entry whose slot is ACTIVE.
C9_VerifiedWithCompletedSlot ==
  \A c \in customers : \A q \in SlotsOf(c) :
    c.status = "VERIFIED" => q.status # "ACTIVE"

\* C10: with no operation in flight, an entry's slot is ACTIVE exactly when
\* the entry is WAITING or BILLED and COMPLETED exactly when it is VERIFIED.
C10_SlotFollowsEntry ==
  (\A p \in Procs : pc[p] = "idle") =>
    \A c \in customers : \A q \in SlotsOf(c) :
      /\ q.status = "ACTIVE" <=> c.status \in {"WAITING", "BILLED"}
      /\ q.status = "COMPLETED" <=> c.status = "VERIFIED"

\* C11: no verification operation, single or bulk, makes an entry VERIFIED
\* from a payload whose queueNumber differs from the entry's: whenever a
\* verify or bulk verify handler writes to a customer document, the
\* queueNumber of the payload it works on is the document's.
C11_MismatchNeverVerifies ==
  [][\A p \in Procs : \A c \in customers :
       (/\ pc[p] \in {"v_mark", "bk_mark"}
        /\ pc'[p] # pc[p]
        /\ c.id = loc[p].doc
        /\ c \notin customers')
         => loc[p].queueNumber = c.queueNumber]_vars

\* C12: for every payload and every store state, what verify answers on its
\* first read is decided by the first check that applies: the payload does
\* not decode -> FAILED / INVALID_QR; no entry with its customerId ->
\* FAILED / INVALID_QR; queueNumber differs -> FAILED / DATA_MISMATCH;
\* status VERIFIED -> FAILED / DUPLICATE_SCAN; status WAITING -> FAILED /
\* NOT_BILLED; status BILLED -> no failure, the call goes on to SUCCESS.
C12_FirstCheckDecides ==
  \A pl \in Payloads :
    LET out == VerifyOutcome(pl)
        failed(reason) == out.verification = "FAILED" /\ out.reason = reason
    IN  IF decodeQRData(pl) # "ok" THEN failed("INVALID_QR")
        ELSE IF FindCustomer(pl.customerId) = {} THEN failed("INVALID_QR")
        ELSE \A c \in FindCustomer(pl.customerId) :
               IF c.queueNumber # pl.queueNumber THEN failed("DATA_MISMATCH")
               ELSE IF c.status = "VERIFIED" THEN failed("DUPLICATE_SCAN")
               ELSE IF c.status = "WAITING" THEN failed("NOT_BILLED")
               ELSE out = NoResponse

\* C13: verify answers a payload that does not decode and a well-formed
\* payload whose customerId has no entry in the same way: the same status
\* code, both FAILED with reason INVALID_QR.
C13_UnknownIdLooksUndecodable ==
  \A bad \in Payloads : \A good \in Payloads :
    (/\ decodeQRData(bad) # "ok"
     /\ decodeQRData(good) = "ok"
     /\ FindCustomer(good.customerId) = {})
      => /\ VerifyOutcome(bad).code = VerifyOutcome(good).code
         /\ VerifyOutcome(bad).verification = "FAILED"
         /\ VerifyOutcome(good).verification = "FAILED"
         /\ VerifyOutcome(bad).reason = "INVALID_QR"
         /\ VerifyOutcome(good).reason = "INVALID_QR"

\* C14: bill is idempotent.  In the state a bill call leaves when it has
\* billed an entry (200, status BILLED, billedAt the time of that call), a
\* second bill call for the entry answers 200 from its checks with the same
\* status and billedAt, and so writes nothing: the state stays the one the
\* first call left.
C14_BillTwiceIsBillOnce ==
  (response.op = "bill" /\ response.code = 200) =>
    \A c \in FindCustomer(response.customerId) :
      LET again == BillOutcome(c.customerId) IN
        /\ c.status = "BILLED"
        /\ c.billedAt = response.billedAt
        /\ again # NoResponse
        /\ again.code = 200
        /\ again.status = "BILLED"
        /\ again.billedAt = response.billedAt

\* C14's case: a bill call has just billed an entry, which is still stored
C14_Witness ==
  /\ response.op = "bill" /\ response.code = 200
  /\ \E c \in FindCustomer(response.customerId) :
       c.billedAt = response.billedAt /\ c.billedAt # Null

\* C15: undoBill goes on to its write only for an entry it read as BILLED,
\* and its write sets status WAITING and billedAt null on that entry and
\* changes nothing else (queueNumber, customerId, verifiedAt, the other
\* entries and every queue slot stay); for an absent customerId it answers
\* 404 and for a WAITING or VERIFIED entry 400, from its checks, that is
\* with the store unchanged.
C15_UndoContract ==
  /\ [](\A customerId \in ArgIds :
          LET out == UndoOutcome(customerId) IN
            /\ FindCustomer(customerId) = {}
                 => out.code = 404 /\ out.reason = "NOT_FOUND"
            /\ \A c \in FindCustomer(customerId) :
                 IF c.status = "BILLED" THEN out = NoResponse
                 ELSE out.code = 400 /\ out.reason = "INVALID_STATE")
  /\ [][\A p \in Procs :
          /\ (pc[p] = "idle" /\ pc'[p] = "u_save")
               => /\ store' = store
                  /\ \E c \in customers :
                       c.id = loc'[p].doc /\ c.status = "BILLED"
          /\ (pc[p] = "u_save" /\ pc'[p] = "idle" /\ response'.code = 200)
               => /\ queues' = queues
                  /\ customers' =
                       {IF c.id = loc[p].doc
                        THEN [c EXCEPT !.status = "WAITING",
                                       !.billedAt = Null]
                        ELSE c : c \in customers}]_vars

\* C15's case: an undoBill call has just taken an entry back to WAITING
\* while an entry that is not BILLED is stored too
C15_Witness ==
  /\ response.op = "undo" /\ response.code = 200
  /\ \E c \in FindCustomer(response.customerId) :
       c.status = "WAITING" /\ c.billedAt = Null
  /\ UndoOutcome(response.customerId).code = 400
  /\ UndoOutcome(START_NUMBER + MaxDocs).code = 404

\* C16: bill answers 404 NotFound for an absent customerId and 400
\* AlreadyVerified for a VERIFIED entry, from its checks, that is with no
\* entry and no queue slot changed; for an entry it read as WAITING it goes
\* on to its write, which sets status BILLED and billedAt to the current
\* time on that entry and changes nothing else.
C16_BillContract ==
  /\ [](\A customerId \in ArgIds :
          LET out == BillOutcome(customerId) IN
            /\ FindCustomer(customerId) = {}
                 => out.code = 404 /\ out.reason = "NOT_FOUND"
            /\ \A c \in FindCustomer(customerId) :
                 /\ c.status = "VERIFIED"
                      => out.code = 400 /\ out.reason = "ALREADY_VERIFIED"
                 /\ c.status = "WAITING" <=> out = NoResponse)
  /\ [][\A p \in Procs :
          /\ (pc[p] = "idle" /\ pc'[p] = "b_mark")
               => /\ store' = store
                  /\ \E c \in customers :
                       c.id = loc'[p].doc /\ c.status = "WAITING"
          /\ (pc[p] = "b_mark" /\ pc'[p] = "idle" /\ response'.code = 200)
               => /\ queues' = queues
                  /\ response'.billedAt = now
                  /\ customers' =
                       {IF c.id = loc[p].doc
                        THEN [c EXCEPT !.status = "BILLED",
                                       !.billedAt = now]
                        ELSE c : c \in customers}]_vars

\* C16's case: an entry was billed and is VERIFIED by now, so that bill is
\* refused for it, and bill is refused for a customerId nobody holds
C16_Witness ==
  /\ \E c \in customers :
       /\ c.status = "VERIFIED"
       /\ c.billedAt # Null
       /\ BillOutcome(c.customerId).code = 400
  /\ BillOutcome(START_NUMBER + MaxDocs).code = 404

\* C17: for an entry that is WAITING or BILLED, queuePosition goes on to
\* its count and returns k + 1, where k is the number of entries with
\* status WAITING or BILLED and a strictly smaller queueNumber; for the
\* active entry with the smallest queueNumber it returns 1.
C17_PositionIsAheadPlusOne ==
  /\ [](\A c \in customers :
          c.status \in {"WAITING", "BILLED"}
            => PositionOutcome(c.customerId) = NoResponse)
  /\ [][\A p \in Procs : \A c \in customers :
          (/\ pc[p] = "q_count" /\ pc'[p] = "idle"
           /\ c.id = loc[p].doc
           /\ c.status \in {"WAITING", "BILLED"})
            => LET active == {d \in customers :
                                d.status \in {"WAITING", "BILLED"}}
                   ahead == {d \in active : d.queueNumber < c.queueNumber}
               IN  /\ response'.code = 200
                   /\ response'.position = Cardinality(ahead) + 1
                   /\ (\A d \in active : c.queueNumber <= d.queueNumber)
                        => response'.position = 1]_vars

\* C17's case: queuePosition has just answered 2 for an active entry that
\* has one active entry ahead of it
C17_Witness ==
  /\ response.op = "position" /\ response.code = 200
  /\ response.position = 2
  /\ \E c \in customers : \E d \in customers :
       /\ c.customerId = response.customerId
       /\ c.status \in {"WAITING", "BILLED"}
       /\ d.status \in {"WAITING", "BILLED"}
       /\ d.queueNumber < c.queueNumber

\* C18: verification enforces no queue order.  For entries A and B with
\* A's queueNumber below B's, a verify call with B's credential while B is
\* BILLED passes every check and goes on to SUCCESS whatever A's status,
\* A still WAITING included; a verify call past its checks ends with
\* SUCCESS unless the document it saves is gone from the store.
C18_NoOrderAtVerification ==
  /\ [](\A a \in customers : \A b \in customers :
          (a.queueNumber < b.queueNumber /\ b.status = "BILLED")
            => VerifyOutcome(CredentialOf(b)) = NoResponse)
  /\ [][\A p \in Procs :
          (pc[p] \in VerifyPcs /\ pc'[p] = "idle")
            => \/ response'.verification = "SUCCESS"
               \/ CustomerById(loc[p].doc) = {}
               \/ (pc[p] = "v_complete" /\ QueueById(loc[p].qdoc) = {})]_vars

\* C18's case: verify has just returned SUCCESS for an entry while an entry
\* with a smaller queueNumber is still WAITING
C18_Witness ==
  /\ response.op = "verify" /\ response.verification = "SUCCESS"
  /\ \E a \in customers : \E b \in customers :
       /\ b.customerId = response.customerId
       /\ b.status = "VERIFIED"
       /\ a.queueNumber < b.queueNumber
       /\ a.status = "WAITING"

\* C19: at most one entry holds a given customerId; a register call whose
\* customerId is held by an entry when it reaches Customer.create, as when
\* two concurrent calls derived the same one, creates nothing and returns
\* the 409 conflict.
C19_OneEntryPerCustomerId ==
  /\ [](\A c \in customers : \A d \in customers :
          c.customerId = d.customerId => c = d)
  /\ [][\A p \in Procs :
          (/\ pc[p] = "r_customer" /\ pc'[p] # "r_customer"
           /\ FindCustomer(loc[p].customerId) # {})
            => /\ store' = store
               /\ pc'[p] = "idle"
               /\ response'.code = 409]_vars

\* C19's case: two register calls derived the same customerId; one has
\* created its entry (and no queue slot yet), the other has just got 409
C19_Witness ==
  /\ response.op = "register" /\ response.code = 409
  /\ queues = {}
  /\ Cardinality(customers) = 1
  /\ \E p \in Procs : \E c \in customers :
       pc[p] = "r_queue" /\ loc[p].doc = c.id

\* C20: a register call whose queueNumber is already held by an entry or
\* by a queue slot creates no entry, and no two entries ever hold the same
\* queueNumber.
C20_NoDuplicatePosition ==
  /\ [](\A c \in customers : \A d \in customers :
          c.queueNumber = d.queueNumber => c = d)
  /\ [][\A p \in Procs :
          (pc[p] = "r_customer" /\ pc'[p] = "r_queue")
            => /\ \A c \in customers : c.queueNumber # loc[p].queueNumber
               /\ \A q \in queues : q.queueNumber # loc[p].queueNumber]_vars

\* C21: a verify call that answers ERROR leaves no partial state: the entry
\* does not carry the call's own write (status VERIFIED with the verifiedAt
\* the call set), so a retry with the credential is not turned away as a
\* duplicate of the failed call.
C21_ErrorLeavesNoWrite ==
  [][\A p \in Procs : \A c \in customers' :
       (/\ pc[p] \in VerifyPcs /\ pc'[p] = "idle"
        /\ response'.verification = "ERROR"
        /\ c.id = loc[p].doc)
         => ~(/\ c.status = "VERIFIED"
              /\ loc[p].verifiedAt # Null
              /\ c.verifiedAt = loc[p].verifiedAt)]_vars


\* C22: decoding the payload that encoding made of a valid identifier (SM-
\* and digits), a positive queue number and the issue time t succeeds and
\* yields exactly that identifier, that queue number and the text of t.
C22_CodecRoundTrip ==
  (/\ call.stage = "done"
   /\ call.t # Null
   /\ MatchesSM(call.data.customerId)
   /\ call.data.queueNumber.val >= 1)
    => /\ call.result = "ok"
       /\ Len(call.parsedData) = 3
       /\ Field(call.parsedData, "customerId") = call.data.customerId
       /\ Field(call.parsedData, "queueNumber") = call.data.queueNumber
       /\ Field(call.parsedData, "timestamp")
            = StringValue(toISOString(call.t))
       /\ Scanned(call.text).customerId
            = FromDigits(SubSeq(call.data.customerId.val, 4,
                                Len(call.data.customerId.val)))

C22_Witness ==
  /\ call.stage = "done"
  /\ call.result = "ok"
  /\ call.data # <<>>
  /\ call.data.queueNumber.val = 305
  /\ call.data.customerId.val = customerIdText(12345)
  /\ call.t > 1


\* C23: decode reports why it rejects a payload: the answer given to a text
\* that cannot be parsed is not given to a text that parses into an object
\* holding both customerId and queueNumber, so a bad identifier or a bad
\* queue number is told apart from a malformed text; and a payload is
\* accepted only with a queue number that is a number >= 1.
C23_DecodeReportsWhy ==
  call.stage = "done" =>
    /\ (/\ call.result # "ok"
        /\ JSONparses(call.text)
        /\ ~Falsy(Field(JSONparse(call.text), "customerId"))
        /\ ~Falsy(Field(JSONparse(call.text), "queueNumber")))
         => call.result # decodeQRData(Scanned(<<>>))
    /\ call.result = "ok"
         => /\ Field(JSONparse(call.text), "queueNumber").type = "number"
            /\ Field(JSONparse(call.text), "queueNumber").val >= 1


\* C24: billedAt is written once per billing transition: a bill call whose
\* write comes when the entry is already BILLED (another bill call, which
\* read WAITING as well, wrote first) leaves the billedAt of the first
\* completed call in place.
C24_BilledAtWrittenOnce ==
  [][\A p \in Procs : \A c \in customers : \A d \in customers' :
       (/\ pc[p] = "b_mark" /\ pc'[p] = "idle"
        /\ c.id = loc[p].doc /\ d.id = c.id
        /\ c.status = "BILLED" /\ c.billedAt # Null)
         => d.billedAt = c.billedAt]_vars


\* C25: the list getCurrentQueue reads holds exactly the entries that are
\* WAITING or BILLED at the time of the read, each once, in strictly
\* ascending order of queueNumber, and no VERIFIED entry.
C25_ActiveQueueInOrder ==
  [][\A p \in Procs :
       (pc[p] = "idle" /\ pc'[p] = "cq_stats") =>
         LET queue == loc'[p].queue IN
           /\ Len(queue) = Cardinality(ActiveCustomers)
           /\ {queue[i] : i \in 1 .. Len(queue)}
                = {Selected(c) : c \in ActiveCustomers}
           /\ \A i \in 1 .. Len(queue) : queue[i].status # "VERIFIED"
           /\ \A i, j \in 1 .. Len(queue) :
                i < j => queue[i].queueNumber < queue[j].queueNumber]_vars


\* C26: queuePosition answers 404 not found when no entry has the given
\* customerId, and for an entry read as VERIFIED it answers 200 with no
\* position (null) instead of a number; no step of the handler changes the
\* store.
C26_PositionNotFoundOrNotRanked ==
  /\ [](\A customerId \in ArgIds :
          LET r == PositionOutcome(customerId) IN
            /\ FindCustomer(customerId) = {}
                 => r.code = 404 /\ r.reason = "NOT_FOUND"
            /\ \A c \in FindCustomer(customerId) :
                 c.status = "VERIFIED"
                   => /\ r.code = 200
                      /\ r.reason = "ALREADY_VERIFIED"
                      /\ r.status = "VERIFIED"
                      /\ r.position = 0)
  /\ [][\A p \in Procs :
          (pc[p] # pc'[p] /\ (pc[p] = "q_count" \/ pc'[p] = "q_count"))
            => UNCHANGED store]_vars

\* C26's case: an entry is VERIFIED and asking for its position gives the
\* answer without a position, while asking for an unknown id gives 404
C26_Witness ==
  \E c \in customers :
    /\ c.status = "VERIFIED"
    /\ PositionOutcome(c.customerId).reason = "ALREADY_VERIFIED"
    /\ PositionOutcome(START_NUMBER + MaxDocs).code = 404
    /\ \E p \in Procs : pc[p] = "q_count"


\* C27: for every integer position the estimated wait is
\* max(0, position - 1) * 3 minutes: 0 for a position <= 1, never negative.
C27_WaitIsThreeMinutesPerCustomerAhead ==
  call.stage = "estimated" =>
    /\ call.result = (IF call.data - 1 > 0 THEN call.data - 1 ELSE 0) * 3
    /\ call.data <= 1 => call.result = 0
    /\ call.result >= 0

C27_Witness ==
  /\ call.stage = "estimated"
  /\ call.data = 5
  /\ call.result = 12


\* C28: customerId and queueNumber never change once a document exists: no
\* step of bill, undo, verify or bulk verify (nor of any other handler)
\* alters either field of an entry, or of a queue slot, that it leaves in
\* the store.
C28_IdAndPositionImmutable ==
  [][/\ \A c \in customers : \A d \in customers' :
          c.id = d.id => /\ d.customerId = c.customerId
                         /\ d.queueNumber = c.queueNumber
     /\ \A q \in queues : \A r \in queues' :
          q.id = r.id => /\ r.customerId = q.customerId
                         /\ r.queueNumber = q.queueNumber]_vars

\* C28's case: an entry has gone through bill and verify, its slot is
\* COMPLETED, and both still carry the identifiers they were created with
C28_Witness ==
  /\ response.op \in {"verify", "bulk", "undo"}
  /\ \E c \in customers : \E q \in SlotsOf(c) :
       /\ c.status = "VERIFIED"
       /\ c.billedAt # Null
       /\ q.status = "COMPLETED"
       /\ q.queueNumber = c.queueNumber


\* The bodies registerCustomer's validation is there to refuse
InvalidBody(in) ==
  \/ in.name = "" \/ in.phone = <<>>
  \/ ~in.cartGiven \/ in.cartNull
  \/ ~IsTenDigits(in.phone)
  \/ (~in.cartNull /\ in.cartTotal < 0)

\* C29: a register call with invalid input (name, phone or cart total
\* missing, a phone that is not ten digits, a negative cart total) is
\* answered 400 by the validation and never goes on to the store: it reads
\* no identifier or queue number and creates no document.
C29_InvalidInputStopsAtValidation ==
  /\ [](\A in \in RegBodies :
          (InvalidBody(in) /\ ~in.cartNull) => RegisterOutcome(in).code = 400)
  /\ [][\A p \in Procs :
          (pc[p] = "idle" /\ pc'[p] = "r_qn") => ~loc'[p].cartNull]_vars


\* C30: the average the statistics report is 0 when no entry is VERIFIED,
\* and otherwise the mean over all VERIFIED entries of the time from entry
\* to verification, taken from their queue slots: every VERIFIED entry
\* counts, whichever operation verified it.  (Stated for a read made while
\* no other request is in flight.)
C30_EveryVerifiedEntryCounts ==
  [][\A p \in Procs :
       (/\ pc[p] = "cq_stats" /\ pc'[p] # "cq_stats"
        /\ \A q \in Procs \ {p} : pc[q] = "idle") =>
         LET statistics == IF pc'[p] = "idle" THEN response'.statistics
                           ELSE loc'[p].statistics
             verified == {c \in customers : c.status = "VERIFIED"}
             slots == UNION {SlotsOf(c) : c \in verified}
         IN  /\ verified = {} => statistics.averageWaitTime.num = 0
             /\ verified # {} =>
                  /\ statistics.averageWaitTime.den
                       = Cardinality(verified) * 1000 * 60
                  /\ statistics.averageWaitTime.num = totalWaitTime(slots)
       ]_vars


\* C31: each entry's timestamps agree with its status: WAITING has neither
\* billedAt nor verifiedAt, BILLED has billedAt and no verifiedAt, VERIFIED
\* has both, whatever the interleaving of bill, undo and verify calls.
C31_TimestampsAgreeWithStatus ==
  \A c \in customers :
    /\ c.status = "WAITING" => c.billedAt = Null /\ c.verifiedAt = Null
    /\ c.status = "BILLED" => c.billedAt # Null /\ c.verifiedAt = Null
    /\ c.status = "VERIFIED" => c.billedAt # Null /\ c.verifiedAt # Null


\* C32: registration creates the entry and its queue slot as a pair: once
\* the register calls have finished, with success or with an error, and no
\* request is in flight, every entry has exactly one queue slot, with its
\* customerId and its queueNumber, and every queue slot belongs to an entry.
C32_EntryAndSlotArePaired ==
  (\A p \in Procs : pc[p] = "idle") =>
    /\ \A c \in customers :
         /\ Cardinality(SlotsOf(c)) = 1
         /\ \A q \in SlotsOf(c) : q.queueNumber = c.queueNumber
    /\ \A q \in queues : \E c \in customers : c.customerId = q.customerId


\* C33: the two position computations agree: with no request in flight, for
\* every entry that is WAITING or BILLED the position counted over queue
\* slots (calculateQueuePosition, used by register and the customer lookup)
\* equals the position counted over entries (used by getQueuePosition).
C33_PositionComputationsAgree ==
  (\A p \in Procs : pc[p] = "idle") =>
    \A c \in customers :
      c.status \in {"WAITING", "BILLED"}
        => calculateQueuePosition(c.queueNumber)
             = customersAhead(c.queueNumber) + 1


\* C34: FIFO progress: what getQueuePosition returns for an entry never
\* goes up while the entry stays WAITING or BILLED.  Once a call has
\* returned a position for the entry, no step of register, bill, undo or
\* verify makes the count a later call takes (WAITING or BILLED entries
\* with a smaller queueNumber, plus one) larger than the position returned.
C34_PositionNeverIncreases ==
  [][\A c \in customers : \A d \in customers' :
       (/\ response.op = "position" /\ response.code = 200
        /\ response.customerId = c.customerId
        /\ response.position > 0
        /\ c.id = d.id
        /\ c.status \in {"WAITING", "BILLED"}
        /\ d.status \in {"WAITING", "BILLED"})
         => Cardinality({e \in customers' :
                           /\ e.status \in {"WAITING", "BILLED"}
                           /\ e.queueNumber < d.queueNumber}) + 1
              <= response.position]_vars


\* C35: after a verify call has returned SUCCESS for an entry, the entry's
\* queue slot eventually is COMPLETED and stays COMPLETED for ever (every
\* started handler keeps running and the store answers).
C35_SlotEventuallyCompleted ==
  \A customerId \in CustomerIds :
    (/\ response.op = "verify"
     /\ response.verification = "SUCCESS"
     /\ response.customerId = customerId)
      ~> [](/\ \E q \in queues : q.customerId = customerId
            /\ \A q \in queues :
                 q.customerId = customerId => q.status = "COMPLETED")


=============================================================================
